---- MODULE Spec2Model ----
(***************************************************************************)
(* Password generator (App.jsx): the React component's state, the          *)
(* passwordGenerator callback with its retry on weak patterns, and the     *)
(* strength scorer (calculateEntropy, getPasswordStrength).                *)
(*                                                                         *)
(* A JavaScript string is a sequence of one-character strings.  A Uint32   *)
(* is a record [hi, lo] of its two 16-bit halves, so that the arithmetic   *)
(* on it stays within 32-bit integers.                                     *)
(***************************************************************************)
EXTENDS Integers, Sequences, FiniteSets, TLC

VARIABLES
    length,         \* useState(12)
    numberAllowed,  \* useState(true)
    charAllowed,    \* useState(true)
    upperAllowed,   \* useState(true)
    lowerAllowed,   \* useState(true)
    password,       \* useState("")
    strength,       \* const strength = getPasswordStrength(), as last rendered
    effectPending,  \* the useEffect of lines 126-135 is scheduled and has not run
    pc,             \* position of the running passwordGenerator call
    pass,           \* its local `pass`
    rngSeed,        \* which output stream the random source is producing
    rngPos,         \* how many words of it the running call has consumed
    discarded,      \* candidates the current request has discarded
    outcome,        \* how the last request ended
    pwdPolicy,      \* the settings the stored password was generated with
    copied,         \* useState(false)
    showPassword,   \* useState(false)
    writes,         \* clipboard writes whose promise has not settled
    timers          \* delays of the setTimeout callbacks not yet run, oldest first

vars == <<length, numberAllowed, charAllowed, upperAllowed, lowerAllowed,
          password, strength, effectPending, pc, pass,
          rngSeed, rngPos, discarded, outcome, pwdPolicy,
          copied, showPassword, writes, timers>>

ui == <<copied, showPassword, writes, timers>>
settings == <<length, numberAllowed, charAllowed, upperAllowed, lowerAllowed>>
locals == <<pass>>
rng == <<rngSeed, rngPos>>

----------------------------------------------------------------------------
(* Bounds of the model *)

\* The slider positions explored are MinLength..MaxLen (plus the initial 12).
MaxLen == 8
\* The random source produces one of the streams 1..NumStreams.
NumStreams == 3
\* The discard counter stops counting here.
MaxDiscards == 3
\* Passwords given to the scorer on its own have at most this many characters.
MaxPwdLen == 20
\* Slider positions given to the scorer on its own are MinLength..MaxScoreLen.
MaxScoreLen == 12
\* Clipboard writes not yet settled plus timers not yet run, at most.
MaxCopies == 2
\* One call on its own is given the streams 1..NumCallStreams.
NumCallStreams == 40

----------------------------------------------------------------------------
(* Program constants *)

InitialLength == 12
MinLength == 8
SliderMax == 50
SymbolDrawRange == 20
CopyResetDelay == 2000

UPPER == <<"A","B","C","D","E","F","G","H","I","J","K","L","M",
           "N","O","P","Q","R","S","T","U","V","W","X","Y","Z">>
LOWER == <<"a","b","c","d","e","f","g","h","i","j","k","l","m",
           "n","o","p","q","r","s","t","u","v","w","x","y","z">>
DIGITS == <<"0","1","2","3","4","5","6","7","8","9">>
SYMBOLS == <<"!","@","#","$","%","^","&","*","(",")","-","_","=",
             "+","[","]","{","}","|",";",":",",",".","<",">","?">>

commonPatterns ==
    << <<"p","a","s","s","w","o","r","d">>,
       <<"1","2","3","4","5","6">>,
       <<"q","w","e","r","t","y">>,
       <<"a","b","c","1","2","3">>,
       <<"l","e","t","m","e","i","n">>,
       <<"a","d","m","i","n">>,
       <<"w","e","l","c","o","m","e">>,
       <<"m","o","n","k","e","y">>,
       <<"d","r","a","g","o","n">>,
       <<"b","a","s","e","b","a","l","l">>,
       <<"f","o","o","t","b","a","l","l">> >>

----------------------------------------------------------------------------
(* JavaScript string primitives *)

Range(s) == {s[i] : i \in DOMAIN s}

\* String.prototype.charAt: the character at a 0-based index, "" outside.
CharAt(s, index) ==
    IF index >= 0 /\ index < Len(s) THEN <<s[index + 1]>> ELSE <<>>

\* String.prototype.toLowerCase on the characters the program can produce.
LowerChar(c) ==
    IF c \in Range(UPPER)
    THEN LOWER[CHOOSE i \in DOMAIN UPPER : UPPER[i] = c]
    ELSE c

toLowerCase(s) == [i \in DOMAIN s |-> LowerChar(s[i])]

\* String.prototype.includes: pattern occurs as a contiguous substring.
includes(s, pattern) ==
    \E start \in 0..(Len(s) - Len(pattern)) :
        \A j \in 1..Len(pattern) : s[start + j] = pattern[j]

----------------------------------------------------------------------------
(* The random source *)

Word(hi, lo) == [hi |-> hi, lo |-> lo]

\* Output streams of crypto.getRandomValues, each repeated cyclically.
\*   1: the smallest word every time
\*   2: the largest word every time
\*   3: words that select a, d, m, i, n from a 26-character alphabet
\*   s > 3: a mixed stream derived from s
StreamTable ==
    << <<Word(0, 0)>>,
       <<Word(65535, 65535)>>,
       <<Word(0, 0), Word(7562, 0), Word(30248, 0), Word(20166, 0),
         Word(32768, 0)>> >>

MixedStream(s) ==
    [i \in 1..7 |-> Word((s * 7919 * i * i + 40503 * i) % 65536,
                         (s * 104729 + 12345 * i) % 65536)]

Stream(s) == IF s \in DOMAIN StreamTable THEN StreamTable[s] ELSE MixedStream(s)

Seeds == 1..NumStreams

\* window.crypto.getRandomValues(array); array[0]
getRandomValues(seed, pos) == Stream(seed)[(pos % Len(Stream(seed))) + 1]

\* generateSecureRandom: array[0] / (0xffffffff + 1).  The result is the
\* fraction word / 2^32, kept as its numerator.
generateSecureRandom(seed, pos) == getRandomValues(seed, pos)

\* Math.round in place of Math.floor: the largest word gives index n.
FloorTimesRounded(r, n) ==
    (2 * (r.hi * n + (r.lo * n) \div 65536) + 65536) \div 131072

\* Math.floor(r * n) for r = word / 2^32 and a small integer n.  The
\* product is exact in a double (below 2^53), so this is floor(word*n/2^32).
FloorTimes(r, n) == (r.hi * n + (r.lo * n) \div 65536) \div 65536

\* The comparator () => generateSecureRandom() - 0.5, by its sign.
Comparator(r) ==
    IF r.hi < 32768 THEN -1
    ELSE IF r.hi = 32768 /\ r.lo = 0 THEN 0
    ELSE 1

----------------------------------------------------------------------------
(* Array.prototype.sort with the random comparator.  The comparator is not *)
(* consistent, so the order is whatever the engine's algorithm makes of    *)
(* the answers; two algorithms engines use on short arrays are modelled.   *)
(* Each works on the array and the stream position, [items, pos].         *)

\* The value of a one-element set; used to bind an intermediate result.
Only(S) == CHOOSE x \in S : TRUE

\* The move without the shift: a[start] overwrites the element at at + 1.
MoveToOverwrite(a, start, at) ==
    [i \in DOMAIN a |-> IF i = at + 1 THEN a[start] ELSE a[i]]

\* Move a[start] (1-based) to 1-based position at + 1, shifting the rest.
MoveTo(a, start, at) ==
    [i \in DOMAIN a |->
        IF i <= at \/ i > start THEN a[i]
        ELSE IF i = at + 1 THEN a[start]
        ELSE a[i - 1]]

\* Straight insertion: the element is compared with a[j], a[j-1], ... and
\* moves left while the comparator answers > 0.  Returns how many elements
\* stay to its left.
RECURSIVE Sift(_, _, _)
Sift(j, seed, pos) ==
    IF j < 1
    THEN [left |-> 0, pos |-> pos]
    ELSE IF Comparator(generateSecureRandom(seed, pos)) > 0
         THEN Sift(j - 1, seed, pos + 1)
         ELSE [left |-> j, pos |-> pos + 1]

\* One pass of the outer loop: insert a[i] among a[1..i-1].
InsertOne(st, i, seed) ==
    Only({[items |-> MoveTo(st.items, i, r.left), pos |-> r.pos] :
              r \in {Sift(i - 1, seed, st.pos)}})

RECURSIVE InsertionSort(_, _, _)
InsertionSort(st, i, seed) ==
    IF i > Len(st.items)
    THEN st
    ELSE Only({InsertionSort(next, i + 1, seed) :
                   next \in {InsertOne(st, i, seed)}})

\* Binary insertion: binary search for the insertion point in the 0-based
\* half-open interval [left, right).
RECURSIVE BinarySearch(_, _, _, _)
BinarySearch(left, right, seed, pos) ==
    IF left >= right
    THEN [left |-> left, pos |-> pos]
    ELSE IF Comparator(generateSecureRandom(seed, pos)) < 0
         THEN BinarySearch(left, left + ((right - left) \div 2), seed, pos + 1)
         ELSE BinarySearch(left + ((right - left) \div 2) + 1, right, seed,
                           pos + 1)

\* One pass of the outer loop: insert a[start] among a[1..start-1].
BinaryInsertOne(st, start, seed) ==
    Only({[items |-> MoveTo(st.items, start, r.left), pos |-> r.pos] :
              r \in {BinarySearch(0, start - 1, seed, st.pos)}})

RECURSIVE BinaryInsertionSort(_, _, _)
BinaryInsertionSort(st, start, seed) ==
    IF start > Len(st.items)
    THEN st
    ELSE Only({BinaryInsertionSort(next, start + 1, seed) :
                   next \in {BinaryInsertOne(st, start, seed)}})

SortAlgorithms == {"insertion", "binaryInsertion"}

sort(a, algorithm, seed, pos) ==
    IF algorithm = "insertion"
    THEN InsertionSort([items |-> a, pos |-> pos], 2, seed)
    ELSE BinaryInsertionSort([items |-> a, pos |-> pos], 2, seed)

----------------------------------------------------------------------------
(* Entropy.  Math.pow(k, L) is held exactly, as little-endian limbs in     *)
(* base 4096; Math.log2 of it is held as its integer part and whether a    *)
(* fractional part is present, which is what comparing it with an integer  *)
(* threshold needs.  For the k <= L <= 50 the program can reach, the       *)
(* double-precision results compare with 20, 40, 60 and 80 the same way.   *)

LimbBase == 4096

RECURSIVE BigTimesFrom(_, _, _, _)
BigTimesFrom(n, k, i, carry) ==
    IF i > Len(n)
    THEN IF carry = 0 THEN <<>> ELSE <<carry>>
    ELSE LET t == n[i] * k + carry
         IN  <<t % LimbBase>> \o BigTimesFrom(n, k, i + 1, t \div LimbBase)

BigTimes(n, k) == BigTimesFrom(n, k, 1, 0)

\* A power that starts its product from the base: wrong for exponent 0.
RECURSIVE PowFromBase(_, _)
PowFromBase(base, exponent) ==
    IF exponent <= 1 THEN <<base>>
    ELSE Only({BigTimes(p, base) : p \in {PowFromBase(base, exponent - 1)}})

\* Math.pow(base, exponent) for non-negative integers; Math.pow(x, 0) is 1.
RECURSIVE Pow(_, _)
Pow(base, exponent) ==
    IF exponent = 0 THEN <<1>>
    ELSE Only({BigTimes(p, base) : p \in {Pow(base, exponent - 1)}})

RECURSIVE FloorLog2(_)
FloorLog2(x) == IF x <= 1 THEN 0 ELSE 1 + FloorLog2(x \div 2)

\* Math.log2 of a positive integer.
Log2(n) ==
    LET top == n[Len(n)]
    IN  [whole |-> 12 * (Len(n) - 1) + FloorLog2(top),
         frac  |-> \/ \E i \in 1..(Len(n) - 1) : n[i] # 0
                   \/ top # 2 ^ FloorLog2(top)]

\* entropy > threshold, for an integer threshold.
Exceeds(entropy, threshold) ==
    \/ entropy.whole > threshold
    \/ entropy.whole = threshold /\ entropy.frac

\* The entropy with the password's length in place of its distinct characters.
calculateEntropyOfLength(pwd) ==
    Only({Log2(power) : power \in {Pow(Len(pwd), Len(pwd))}})

calculateEntropy(pwd) ==
    LET charSet == Range(pwd)
    IN  Only({Log2(power) : power \in {Pow(Cardinality(charSet), Len(pwd))}})

\* The tier conditions with >= in place of > on the entropy thresholds.
TierOfInclusive(entropy, len, number, char, upper, lower) ==
    IF entropy.whole >= 80 /\ len >= 12 /\ number /\ char /\ upper /\ lower
    THEN [text |-> "Very Strong", width |-> 100]
    ELSE IF entropy.whole >= 60 /\ len >= 10
            /\ (number \/ char) /\ (upper \/ lower)
    THEN [text |-> "Strong", width |-> 80]
    ELSE IF entropy.whole >= 40 /\ len >= 8
    THEN [text |-> "Medium", width |-> 60]
    ELSE IF entropy.whole >= 20
    THEN [text |-> "Weak", width |-> 40]
    ELSE [text |-> "Very Weak", width |-> 20]

\* Lines 141-188: the if / else-if chain; of the object returned, the text
\* and the width are kept, the colour classes are left out.
TierOf(entropy, len, number, char, upper, lower) ==
    IF Exceeds(entropy, 80) /\ len >= 12 /\ number /\ char /\ upper /\ lower
    THEN [text |-> "Very Strong", width |-> 100]
    ELSE IF Exceeds(entropy, 60) /\ len >= 10
            /\ (number \/ char) /\ (upper \/ lower)
    THEN [text |-> "Strong", width |-> 80]
    ELSE IF Exceeds(entropy, 40) /\ len >= 8
    THEN [text |-> "Medium", width |-> 60]
    ELSE IF Exceeds(entropy, 20)
    THEN [text |-> "Weak", width |-> 40]
    ELSE [text |-> "Very Weak", width |-> 20]

\* Line 140: const entropy = calculateEntropy(password), then the chain.
getPasswordStrength(pwd, len, number, char, upper, lower) ==
    Only({TierOf(entropy, len, number, char, upper, lower) :
              entropy \in {calculateEntropy(pwd)}})

----------------------------------------------------------------------------
(* passwordGenerator *)

\* The pool with the digit and symbol flags exchanged.
BuildPoolSwapped(upper, lower, number, char) ==
    (IF upper THEN UPPER ELSE <<>>)
    \o (IF lower THEN LOWER ELSE <<>>)
    \o (IF char THEN DIGITS ELSE <<>>)
    \o (IF number THEN SYMBOLS ELSE <<>>)

\* The pool falling back to lowercase letters when nothing is selected.
BuildPoolFallback(upper, lower, number, char) ==
    IF ~upper /\ ~lower /\ ~number /\ ~char
    THEN LOWER
    ELSE (IF upper THEN UPPER ELSE <<>>)
         \o (IF lower THEN LOWER ELSE <<>>)
         \o (IF number THEN DIGITS ELSE <<>>)
         \o (IF char THEN SYMBOLS ELSE <<>>)

\* Lines 61-64: the character pool.
BuildPool(upper, lower, number, char) ==
    (IF upper THEN UPPER ELSE <<>>)
    \o (IF lower THEN LOWER ELSE <<>>)
    \o (IF number THEN DIGITS ELSE <<>>)
    \o (IF char THEN SYMBOLS ELSE <<>>)

\* One draw: alphabet.charAt(Math.floor(generateSecureRandom() * n)).
Draw(alphabet, n, seed, pos) ==
    CharAt(alphabet, FloorTimes(generateSecureRandom(seed, pos), n))

\* The coverage draws taken from the combined pool instead of each type's
\* own alphabet.
CoverageDrawsFromPool(upper, lower, number, char, seed) ==
    LET pool == BuildPool(upper, lower, number, char)
        p1 == IF upper THEN 1 ELSE 0
        p2 == p1 + (IF lower THEN 1 ELSE 0)
        p3 == p2 + (IF number THEN 1 ELSE 0)
        p4 == p3 + (IF char THEN 1 ELSE 0)
    IN  [pass |-> (IF upper THEN Draw(pool, Len(pool), seed, 0) ELSE <<>>)
                  \o (IF lower THEN Draw(pool, Len(pool), seed, p1) ELSE <<>>)
                  \o (IF number THEN Draw(pool, Len(pool), seed, p2) ELSE <<>>)
                  \o (IF char THEN Draw(pool, Len(pool), seed, p3) ELSE <<>>),
         pos  |-> p4]

\* Lines 73-86: one character of each selected type, in this order.
CoverageDraws(upper, lower, number, char, seed) ==
    LET p1 == IF upper THEN 1 ELSE 0
        p2 == p1 + (IF lower THEN 1 ELSE 0)
        p3 == p2 + (IF number THEN 1 ELSE 0)
        p4 == p3 + (IF char THEN 1 ELSE 0)
    IN  [pass |-> (IF upper THEN Draw(UPPER, 26, seed, 0) ELSE <<>>)
                  \o (IF lower THEN Draw(LOWER, 26, seed, p1) ELSE <<>>)
                  \o (IF number THEN Draw(DIGITS, 10, seed, p2) ELSE <<>>)
                  \o (IF char THEN Draw(SYMBOLS, SymbolDrawRange, seed, p3)
                      ELSE <<>>),
         pos  |-> p4]

\* The pattern test without toLowerCase.
IsWeakCaseSensitive(candidate) ==
    \E i \in DOMAIN commonPatterns : includes(candidate, commonPatterns[i])

\* The pattern test comparing the result of includes with -1, as one would
\* the result of indexOf: true of every candidate.
IsWeakAlways(candidate) ==
    \E lowered \in {toLowerCase(candidate)} :
        \E i \in DOMAIN commonPatterns :
            includes(lowered, commonPatterns[i]) \in BOOLEAN

\* Lines 101-103: commonPatterns.some(p => pass.toLowerCase().includes(p)).
IsWeak(candidate) ==
    \E lowered \in {toLowerCase(candidate)} :
        \E i \in DOMAIN commonPatterns :
            includes(lowered, commonPatterns[i])

\* The local `str` of the running call: the pool of the flags its closure
\* holds, which no handler can change while the call runs.
str == BuildPool(upperAllowed, lowerAllowed, numberAllowed, charAllowed)

CurrentPolicy ==
    [length |-> length, upper |-> upperAllowed, lower |-> lowerAllowed,
     number |-> numberAllowed, char |-> charAllowed]

NoPolicy ==
    [length |-> 0, upper |-> FALSE, lower |-> FALSE,
     number |-> FALSE, char |-> FALSE]

Idle == pc = "idle" /\ ~effectPending

\* The effect of lines 126-135 runs: passwordGenerator() is called.
RunEffect ==
    /\ pc = "idle"
    /\ effectPending
    /\ effectPending' = FALSE
    /\ pc' = "entry"
    /\ discarded' = 0
    /\ outcome' = "running"
    /\ UNCHANGED <<ui, settings, password, strength, locals, rng, pwdPolicy>>

\* The Generate button: onClick={passwordGenerator}.
GenerateClick ==
    /\ Idle
    /\ pc' = "entry"
    /\ discarded' = 0
    /\ outcome' = "running"
    /\ UNCHANGED <<ui, settings, password, strength, effectPending, locals, rng,
                   pwdPolicy>>

\* The rejection also clearing the field: setPassword("") before the return.
RejectClearing ==
    /\ pc = "entry"
    /\ str = <<>>
    /\ outcome' = "rejected"
    /\ password' = <<>>
    /\ pc' = "render"
    /\ UNCHANGED <<ui, settings, strength, effectPending, locals, rng,
                   discarded, pwdPolicy>>

\* Lines 57-70 with no type selected: alert and return.
Reject ==
    /\ pc = "entry"
    /\ str = <<>>
    /\ outcome' = "rejected"
    /\ pc' = "idle"
    /\ UNCHANGED <<ui, settings, password, strength, effectPending, locals, rng,
                   discarded, pwdPolicy>>

\* Lines 57-86 with a type selected: build the pool, draw one of each type.
Coverage(seed) ==
    /\ pc = "entry"
    /\ str # <<>>
    /\ LET c == CoverageDraws(upperAllowed, lowerAllowed, numberAllowed,
                              charAllowed, seed)
       IN  /\ pass' = c.pass
           /\ rngPos' = c.pos
    /\ rngSeed' = seed
    /\ pc' = "fill"
    /\ UNCHANGED <<ui, settings, password, strength, effectPending, discarded,
                   outcome, pwdPolicy>>

\* The fill loop with <= in place of <: one character too many.
FillStepInclusive ==
    /\ pc = "fill"
    /\ Len(pass) <= length
    /\ pass' = pass \o Draw(str, Len(str), rngSeed, rngPos)
    /\ rngPos' = rngPos + 1
    /\ UNCHANGED <<ui, settings, password, strength, effectPending, pc,
                   rngSeed, discarded, outcome, pwdPolicy>>

\* Lines 89-92: one iteration of the fill loop.
FillStep ==
    /\ pc = "fill"
    /\ Len(pass) < length
    /\ pass' = pass \o Draw(str, Len(str), rngSeed, rngPos)
    /\ rngPos' = rngPos + 1
    /\ UNCHANGED <<ui, settings, password, strength, effectPending, pc,
                   rngSeed, discarded, outcome, pwdPolicy>>

\* Lines 95-98: the loop has ended; split, sort, join.
Shuffle(algorithm) ==
    /\ pc = "fill"
    /\ ~(Len(pass) < length)
    /\ LET r == sort(pass, algorithm, rngSeed, rngPos)
       IN  /\ pass' = r.items
           /\ rngPos' = r.pos
    /\ pc' = "check"
    /\ UNCHANGED <<ui, settings, password, strength, effectPending,
                   rngSeed, discarded, outcome, pwdPolicy>>

\* Lines 101-105: the candidate matches a pattern; return passwordGenerator().
\* The counter of discarded candidates stops at MaxDiscards.
Retry ==
    /\ pc = "check"
    /\ IsWeak(pass)
    /\ discarded' = IF discarded < MaxDiscards THEN discarded + 1
                    ELSE discarded
    /\ pass' = <<>>
    /\ rngPos' = 0
    /\ pc' = "entry"
    /\ UNCHANGED <<ui, settings, password, strength, effectPending, rngSeed,
                   outcome, pwdPolicy>>

\* Line 108: setPassword(pass).
Store ==
    /\ pc = "check"
    /\ ~IsWeak(pass)
    /\ password' = pass
    /\ pwdPolicy' = CurrentPolicy
    /\ outcome' = "stored"
    /\ pass' = <<>>
    /\ rngPos' = 0
    /\ pc' = "render"
    /\ UNCHANGED <<ui, settings, strength, effectPending, rngSeed, discarded>>

\* The render a state change causes; line 192: strength = getPasswordStrength().
Render ==
    /\ pc = "render"
    /\ strength' = getPasswordStrength(password, length, numberAllowed,
                                       charAllowed, upperAllowed, lowerAllowed)
    /\ pc' = "idle"
    /\ UNCHANGED <<ui, settings, password, effectPending, locals, rng, discarded,
                   outcome, pwdPolicy>>

----------------------------------------------------------------------------
(* The controls *)

SliderValues == {v \in MinLength..SliderMax : v <= MaxLen}

\* onChange={(e) => setLength(Number(e.target.value))}
SetLength(v) ==
    /\ Idle
    /\ v # length
    /\ length' = v
    /\ effectPending' = TRUE
    /\ pc' = "render"
    /\ UNCHANGED <<ui, numberAllowed, charAllowed, upperAllowed, lowerAllowed,
                   password, strength, locals, rng, discarded, outcome, pwdPolicy>>

\* upperAllowed left out of the dependency lists: the flag changes and no
\* effect is scheduled.
ToggleUpperNoEffect ==
    /\ Idle
    /\ upperAllowed' = ~upperAllowed
    /\ pc' = "render"
    /\ UNCHANGED <<ui, length, numberAllowed, charAllowed, lowerAllowed,
                   password, strength, effectPending, locals, rng, discarded,
                   outcome, pwdPolicy>>

\* onChange={() => setUpperAllowed((prev) => !prev)}
ToggleUpper ==
    /\ Idle
    /\ upperAllowed' = ~upperAllowed
    /\ effectPending' = TRUE
    /\ pc' = "render"
    /\ UNCHANGED <<ui, length, numberAllowed, charAllowed, lowerAllowed,
                   password, strength, locals, rng, discarded, outcome, pwdPolicy>>

\* onChange={() => setLowerAllowed((prev) => !prev)}
ToggleLower ==
    /\ Idle
    /\ lowerAllowed' = ~lowerAllowed
    /\ effectPending' = TRUE
    /\ pc' = "render"
    /\ UNCHANGED <<ui, length, numberAllowed, charAllowed, upperAllowed,
                   password, strength, locals, rng, discarded, outcome, pwdPolicy>>

\* onChange={() => setNumberAllowed((prev) => !prev)}
ToggleNumber ==
    /\ Idle
    /\ numberAllowed' = ~numberAllowed
    /\ effectPending' = TRUE
    /\ pc' = "render"
    /\ UNCHANGED <<ui, length, charAllowed, upperAllowed, lowerAllowed,
                   password, strength, locals, rng, discarded, outcome, pwdPolicy>>

\* onChange={() => setCharAllowed((prev) => !prev)}
ToggleChar ==
    /\ Idle
    /\ charAllowed' = ~charAllowed
    /\ effectPending' = TRUE
    /\ pc' = "render"
    /\ UNCHANGED <<ui, length, numberAllowed, upperAllowed, lowerAllowed,
                   password, strength, locals, rng, discarded, outcome, pwdPolicy>>

----------------------------------------------------------------------------
(* The password field's buttons *)

\* onClick={() => setShowPassword(!showPassword)}
ToggleShow ==
    /\ Idle
    /\ showPassword' = ~showPassword
    /\ pc' = "render"
    /\ UNCHANGED <<settings, password, strength, effectPending, locals, rng,
                   discarded, outcome, pwdPolicy, copied, writes, timers>>

\* Lines 113-116: select the field, start navigator.clipboard.writeText.
CopyClick ==
    /\ Idle
    /\ writes + Len(timers) < MaxCopies
    /\ writes' = writes + 1
    /\ UNCHANGED <<settings, password, strength, effectPending, pc, locals,
                   rng, discarded, outcome, pwdPolicy, copied, showPassword,
                   timers>>

\* Lines 117-120: the write succeeded; setCopied(true) and
\* setTimeout(() => setCopied(false), 2000).
WriteResolved ==
    /\ Idle
    /\ writes > 0
    /\ writes' = writes - 1
    /\ copied' = TRUE
    /\ timers' = Append(timers, CopyResetDelay)
    /\ pc' = IF copied THEN pc ELSE "render"
    /\ UNCHANGED <<settings, password, strength, effectPending, locals, rng,
                   discarded, outcome, pwdPolicy, showPassword>>

\* Line 121: the write failed; alert.
WriteRejected ==
    /\ Idle
    /\ writes > 0
    /\ writes' = writes - 1
    /\ UNCHANGED <<settings, password, strength, effectPending, pc, locals,
                   rng, discarded, outcome, pwdPolicy, copied, showPassword,
                   timers>>

\* Line 119: a timeout callback runs, setCopied(false).  The callbacks all
\* have the same delay, so they run in the order they were set.
TimerFires ==
    /\ Idle
    /\ timers # <<>>
    /\ timers' = Tail(timers)
    /\ copied' = FALSE
    /\ pc' = IF copied THEN "render" ELSE pc
    /\ UNCHANGED <<settings, password, strength, effectPending, locals, rng,
                   discarded, outcome, pwdPolicy, showPassword, writes>>

----------------------------------------------------------------------------
(* The component: state after the first render, the mount effect pending *)

Init ==
    /\ length = InitialLength
    /\ numberAllowed = TRUE
    /\ charAllowed = TRUE
    /\ upperAllowed = TRUE
    /\ lowerAllowed = TRUE
    /\ password = <<>>
    /\ strength = getPasswordStrength(<<>>, InitialLength, TRUE, TRUE, TRUE,
                                      TRUE)
    /\ effectPending = TRUE
    /\ pc = "idle"
    /\ pass = <<>>
    /\ rngSeed \in Seeds
    /\ rngPos = 0
    /\ discarded = 0
    /\ outcome = "none"
    /\ pwdPolicy = NoPolicy
    /\ copied = FALSE
    /\ showPassword = FALSE
    /\ writes = 0
    /\ timers = <<>>

\* The settings, the Generate button and the passwordGenerator call.
NextGenerator ==
    \/ RunEffect
    \/ GenerateClick
    \/ Reject
    \/ \E seed \in Seeds : Coverage(seed)
    \/ FillStep
    \/ \E algorithm \in SortAlgorithms : Shuffle(algorithm)
    \/ Retry
    \/ Store
    \/ Render
    \/ \E v \in SliderValues : SetLength(v)
    \/ ToggleUpper
    \/ ToggleLower
    \/ ToggleNumber
    \/ ToggleChar

Next ==
    \/ NextGenerator
    \/ ToggleShow
    \/ CopyClick
    \/ WriteResolved
    \/ WriteRejected
    \/ TimerFires

Spec == Init /\ [][Next]_vars

\* A step of the code or of React: the scheduled effect, the running call,
\* the render after a state change.
CallStep ==
    \/ RunEffect
    \/ Reject
    \/ FillStep
    \/ \E algorithm \in SortAlgorithms : Shuffle(algorithm)
    \/ Retry
    \/ Store
    \/ Render

\* The code runs to completion once called and React runs what it has
\* scheduled; the random source eventually produces each of its streams.
\* The password field's buttons act only between calls and on none of the
\* call's variables, so the behaviours here are those of the generator.
FairSpec ==
    /\ Init
    /\ [][NextGenerator]_vars
    /\ WF_vars(CallStep)
    /\ \A seed \in Seeds : SF_vars(Coverage(seed))

----------------------------------------------------------------------------
(* The scorer on its own: a password and settings, then one render *)

AllChars == UPPER \o LOWER \o DIGITS \o SYMBOLS

\* A password of the given length with exactly `distinct` different characters.
MakePassword(distinct, len) ==
    [i \in 1..len |-> AllChars[((i - 1) % distinct) + 1]]

ScorePasswords ==
    {<<>>} \cup
    {MakePassword(k, len) : k \in 1..MaxPwdLen, len \in MinLength..MaxPwdLen}

NotRendered == [text |-> "", width |-> 0]

InitScore ==
    /\ length \in {v \in MinLength..SliderMax : v <= MaxScoreLen}
    /\ numberAllowed \in BOOLEAN
    /\ charAllowed \in BOOLEAN
    /\ upperAllowed \in BOOLEAN
    /\ lowerAllowed \in BOOLEAN
    /\ password \in ScorePasswords
    /\ strength = NotRendered
    /\ effectPending = FALSE
    /\ pc = "render"
    /\ pass = <<>>
    /\ rngSeed = 1
    /\ rngPos = 0
    /\ discarded = 0
    /\ outcome = "none"
    /\ pwdPolicy = NoPolicy
    /\ copied = FALSE
    /\ showPassword = FALSE
    /\ writes = 0
    /\ timers = <<>>

NextScore == Render

SpecScore == InitScore /\ [][NextScore]_vars

----------------------------------------------------------------------------
(* One call of passwordGenerator on its own, up to the shuffle, under any  *)
(* selection of classes and a wider choice of random streams               *)

CallSeeds == 1..NumCallStreams

InitCall ==
    /\ length = MinLength
    /\ numberAllowed \in BOOLEAN
    /\ charAllowed \in BOOLEAN
    /\ upperAllowed \in BOOLEAN
    /\ lowerAllowed \in BOOLEAN
    /\ numberAllowed \/ charAllowed \/ upperAllowed \/ lowerAllowed
    /\ password = <<>>
    /\ strength = NotRendered
    /\ effectPending = FALSE
    /\ pc = "entry"
    /\ pass = <<>>
    /\ rngSeed = 1
    /\ rngPos = 0
    /\ discarded = 0
    /\ outcome = "running"
    /\ pwdPolicy = NoPolicy
    /\ copied = FALSE
    /\ showPassword = FALSE
    /\ writes = 0
    /\ timers = <<>>

NextCall ==
    \/ \E seed \in CallSeeds : Coverage(seed)
    \/ FillStep
    \/ \E algorithm \in SortAlgorithms : Shuffle(algorithm)

SpecCall == InitCall /\ [][NextCall]_vars

----------------------------------------------------------------------------
(* Properties *)

HasCharOf(pwd, alphabet) == \E i \in DOMAIN pwd : pwd[i] \in Range(alphabet)

ClassCount(policy) ==
    (IF policy.upper THEN 1 ELSE 0) + (IF policy.lower THEN 1 ELSE 0)
    + (IF policy.number THEN 1 ELSE 0) + (IF policy.char THEN 1 ELSE 0)

Max(a, b) == IF a >= b THEN a ELSE b

NoClass == ~upperAllowed /\ ~lowerAllowed /\ ~numberAllowed /\ ~charAllowed

\* C1 (coverage): a stored password contains at least one character of each
\* class that was enabled in the settings it was generated with.
C1_Coverage ==
    pwdPolicy # NoPolicy =>
        /\ pwdPolicy.upper => HasCharOf(password, UPPER)
        /\ pwdPolicy.lower => HasCharOf(password, LOWER)
        /\ pwdPolicy.number => HasCharOf(password, DIGITS)
        /\ pwdPolicy.char => HasCharOf(password, SYMBOLS)

\* A password stored under all four classes whose fill drew only one character.
C1_Witness ==
    /\ outcome = "stored"
    /\ pwdPolicy.upper /\ pwdPolicy.lower /\ pwdPolicy.number /\ pwdPolicy.char
    /\ Cardinality(Range(password)) = 4
    /\ HasCharOf(password, UPPER) /\ HasCharOf(password, LOWER)
    /\ HasCharOf(password, DIGITS) /\ HasCharOf(password, SYMBOLS)

\* C2 (length): a stored password has exactly max(length, number of enabled
\* classes) characters, for the settings it was generated with, and while
\* the candidate is being filled it has one character per draw made.
C2_Length ==
    /\ pwdPolicy # NoPolicy =>
           Len(password) = Max(pwdPolicy.length, ClassCount(pwdPolicy))
    /\ pc = "fill" => Len(pass) = rngPos

\* A password stored at the smallest length, drawn from the largest words.
C2_Witness ==
    /\ outcome = "stored"
    /\ pwdPolicy.length = MinLength
    /\ Len(password) = MinLength
    /\ rngSeed = 2

\* C3 (alphabet containment): every character of a stored password belongs
\* to the alphabet of a class enabled in the settings it was generated with.
C3_Containment ==
    \A i \in DOMAIN password :
        \/ pwdPolicy.upper /\ password[i] \in Range(UPPER)
        \/ pwdPolicy.lower /\ password[i] \in Range(LOWER)
        \/ pwdPolicy.number /\ password[i] \in Range(DIGITS)
        \/ pwdPolicy.char /\ password[i] \in Range(SYMBOLS)

\* A password stored with digits only.
C3_Witness ==
    /\ outcome = "stored"
    /\ pwdPolicy.number
    /\ ~pwdPolicy.upper /\ ~pwdPolicy.lower /\ ~pwdPolicy.char
    /\ Len(password) >= MinLength

\* C4 (denylist exclusion): the stored password, lowercased, contains none
\* of the eleven patterns as a substring.
C4_Denylist ==
    LET lowered == toLowerCase(password)
    IN  \A i \in DOMAIN commonPatterns :
            \A first \in 1..(Len(password) - Len(commonPatterns[i]) + 1) :
                SubSeq(lowered, first, first + Len(commonPatterns[i]) - 1)
                    # commonPatterns[i]

\* A password stored by a request that had discarded a matching candidate.
C4_Witness ==
    /\ outcome = "stored"
    /\ discarded > 0
    /\ password # <<>>

\* C5 (policy rejection): a call made with no class selected ends with the
\* alert, reads nothing from the random source and leaves the stored
\* password as it was.
C5_Rejection ==
    [][(pc = "entry" /\ NoClass) =>
          /\ outcome' = "rejected"
          /\ pc' = "idle"
          /\ rngSeed' = rngSeed
          /\ rngPos' = rngPos
          /\ password' = password]_vars

\* A rejected request that left an earlier password in place.
C5_Witness ==
    /\ outcome = "rejected"
    /\ NoClass
    /\ password # <<>>

\* C6 (bounded retry): a request discards at most a fixed number of
\* candidates, here fewer than MaxDiscards.
C6_BoundedRetry == discarded < MaxDiscards

TierConditions ==
    LET e == calculateEntropy(password)
        all == numberAllowed /\ charAllowed /\ upperAllowed /\ lowerAllowed
        mixed == (numberAllowed \/ charAllowed)
                 /\ (upperAllowed \/ lowerAllowed)
    IN  << [text |-> "Very Strong",
            holds |-> Exceeds(e, 80) /\ length >= 12 /\ all],
           [text |-> "Strong",
            holds |-> Exceeds(e, 60) /\ length >= 10 /\ mixed],
           [text |-> "Medium", holds |-> Exceeds(e, 40) /\ length >= 8],
           [text |-> "Weak", holds |-> Exceeds(e, 20)],
           [text |-> "Very Weak", holds |-> TRUE] >>

C8_Tier ==
    pc = "idle" =>
        \E i \in DOMAIN TierConditions :
            /\ TierConditions[i].holds
            /\ \A j \in 1..(i - 1) : ~TierConditions[j].holds
            /\ strength.text = TierConditions[i].text

\* Entropy exactly 80 with all classes and length 12: Strong, not Very Strong.
C8_Witness ==
    /\ pc = "idle"
    /\ calculateEntropy(password) = [whole |-> 80, frac |-> FALSE]
    /\ length >= 12
    /\ numberAllowed /\ charAllowed /\ upperAllowed /\ lowerAllowed
    /\ strength.text = "Strong"

\* a > b for two limb sequences without leading zero limbs.
RECURSIVE BigGreaterFrom(_, _, _)
BigGreaterFrom(a, b, i) ==
    IF i = 0 THEN FALSE
    ELSE IF a[i] # b[i] THEN a[i] > b[i]
    ELSE BigGreaterFrom(a, b, i - 1)

BigGreater(a, b) ==
    IF Len(a) # Len(b) THEN Len(a) > Len(b) ELSE BigGreaterFrom(a, b, Len(a))

\* 2^exponent as limbs.
PowerOfTwo(exponent) ==
    [i \in 1..(exponent \div 12 + 1) |->
        IF i = exponent \div 12 + 1 THEN 2 ^ (exponent % 12) ELSE 0]

\* C9 (entropy formula): with k the number of distinct characters of the
\* password and L its length, the entropy exceeds each of 20, 40, 60, 80
\* exactly when k^L > 2^threshold, and it is 0 for one repeated character.
C9_Entropy ==
    LET distinct == Cardinality({password[i] : i \in DOMAIN password})
        bits == calculateEntropy(password)
    IN  /\ \A bound \in {20, 40, 60, 80} :
               Exceeds(bits, bound)
                   <=> BigGreater(Pow(distinct, Len(password)),
                                  PowerOfTwo(bound))
        /\ distinct = 1 => bits = [whole |-> 0, frac |-> FALSE]

\* A rendered password of one repeated character.
C9_Witness ==
    /\ pc = "idle"
    /\ Len(password) >= MinLength
    /\ Cardinality(Range(password)) = 1
    /\ calculateEntropy(password) = [whole |-> 0, frac |-> FALSE]

\* C10 (scorer totality): every render yields one of the five tiers, and the
\* empty password has entropy 0 and the tier Very Weak.
Tiers ==
    { [text |-> "Very Strong", width |-> 100],
      [text |-> "Strong", width |-> 80],
      [text |-> "Medium", width |-> 60],
      [text |-> "Weak", width |-> 40],
      [text |-> "Very Weak", width |-> 20] }

C10_Totality ==
    pc = "idle" =>
        /\ strength \in Tiers
        /\ password = <<>> =>
               /\ calculateEntropy(password) = [whole |-> 0, frac |-> FALSE]
               /\ strength.text = "Very Weak"

\* The empty password rendered with every class selected at length 12.
C10_Witness ==
    /\ pc = "idle"
    /\ password = <<>>
    /\ length = 12
    /\ numberAllowed /\ charAllowed /\ upperAllowed /\ lowerAllowed
    /\ strength.text = "Very Weak"

\* C11 (scorer uses the creating policy): whenever the tier of a non-empty
\* stored password is about to be computed by a render, the length and the
\* four flags the render reads are those the password was generated with.
C11_CreatingPolicy ==
    (pc = "render" /\ password # <<>>) => CurrentPolicy = pwdPolicy

\* C12 (digits-only scenario): a password generated with length 8 and only
\* the digits selected has 8 characters, all of them digits, and its tier
\* under those settings is neither Strong nor Very Strong.
DigitsOnly ==
    [length |-> 8, upper |-> FALSE, lower |-> FALSE, number |-> TRUE,
     char |-> FALSE]

C12_DigitsOnly ==
    pwdPolicy = DigitsOnly =>
        /\ Len(password) = 8
        /\ \A i \in DOMAIN password : password[i] \in Range(DIGITS)
        /\ getPasswordStrength(password, 8, TRUE, FALSE, FALSE, FALSE).text
               \in {"Medium", "Weak", "Very Weak"}

\* A digits-only password of several different digits, stored and rendered
\* under the settings it was generated with.
C12_Witness ==
    /\ Idle
    /\ outcome = "stored"
    /\ pwdPolicy = DigitsOnly
    /\ CurrentPolicy = DigitsOnly
    /\ Cardinality(Range(password)) > 1
    /\ strength.text \in {"Medium", "Weak", "Very Weak"}

\* C13 (coverage draw range): for each class, the characters its coverage
\* draw can produce are exactly the class's alphabet: each of them is drawn
\* for some output of the random source, nothing else is drawn, and the
\* symbol alphabet has 20 characters.
ClassAlphabets == <<UPPER, LOWER, DIGITS, SYMBOLS>>

SelectedFlags == <<upperAllowed, lowerAllowed, numberAllowed, charAllowed>>

OnlySelected(k) == \A j \in 1..4 : SelectedFlags[j] <=> (j = k)

C13_DrawRange ==
    /\ Len(SYMBOLS) = 20
    /\ \A k \in 1..4 :
           OnlySelected(k) =>
               /\ pc = "entry" =>
                      \A c \in Range(ClassAlphabets[k]) :
                          ENABLED (\E seed \in CallSeeds :
                                      Coverage(seed) /\ pass' = <<c>>)
               /\ (pc = "fill" /\ rngPos = 1) =>
                      pass[1] \in Range(ClassAlphabets[k])

\* C14 (shuffle is a permutation): the shuffle step leaves the candidate's
\* length and the number of occurrences of every character as they were,
\* so the shuffled candidate still has the selected length, one character
\* of each selected class and only characters of selected classes.
Count(s, c) == Cardinality({i \in DOMAIN s : s[i] = c})

Covered(candidate) ==
    /\ upperAllowed => HasCharOf(candidate, UPPER)
    /\ lowerAllowed => HasCharOf(candidate, LOWER)
    /\ numberAllowed => HasCharOf(candidate, DIGITS)
    /\ charAllowed => HasCharOf(candidate, SYMBOLS)

C14_Permutation ==
    [][(pc = "fill" /\ pc' = "check") =>
          /\ Len(pass') = Len(pass)
          /\ \A c \in Range(pass) \cup Range(pass') :
                 Count(pass', c) = Count(pass, c)
          /\ Len(pass') = length
          /\ Covered(pass')
          /\ Range(pass') \subseteq Range(str)]_vars

\* A shuffled candidate whose first character is no longer the uppercase
\* letter the coverage draws put there.
C14_Witness ==
    /\ pc = "check"
    /\ upperAllowed
    /\ Len(pass) = length
    /\ pass[1] \notin Range(UPPER)
    /\ HasCharOf(pass, UPPER)

\* C15 (password replaced only by generation): the stored password changes
\* only in the step that stores a candidate matching no pattern; the copy
\* button, the visibility button, the copy timer, a rejected call and a
\* discarded candidate leave it as it was, and no step of a running call
\* changes the length or a class flag.
C15_ReplacedOnlyByGeneration ==
    [][/\ password' # password =>
              /\ pc = "check"
              /\ ~IsWeak(pass)
              /\ password' = pass
              /\ outcome' = "stored"
       /\ (copied' # copied \/ showPassword' # showPassword
              \/ writes' # writes \/ timers' # timers) =>
              password' = password
       /\ (pc = "entry" /\ NoClass) => password' = password
       /\ (pc = "check" /\ IsWeak(pass)) => password' = password
       /\ pc \in {"entry", "fill", "check"} => settings' = settings]_vars

\* A password that outlived a copy, a visibility toggle and a rejected call.
C15_Witness ==
    /\ Idle
    /\ outcome = "rejected"
    /\ password # <<>>
    /\ copied
    /\ showPassword

\* C16 (regenerate on change), as stated: once the effect has run, the
\* stored password is one generated with the settings now selected.
C16_RegenerateAlways == Idle => pwdPolicy = CurrentPolicy

\* C16 (regenerate on change), amended: every change of the length or of a
\* class flag schedules the effect; once it has run, the stored password is
\* one generated with the settings now selected if a class is selected, and
\* the call has ended with the alert if none is.
C16_Regenerate ==
    [][/\ settings' # settings => effectPending'
       /\ (Idle' /\ ~NoClass') => pwdPolicy' = CurrentPolicy'
       /\ (Idle' /\ NoClass') => outcome' = "rejected"]_vars

\* A password regenerated after the slider and a checkbox were changed.
C16_Witness ==
    /\ Idle
    /\ outcome = "stored"
    /\ length = MinLength
    /\ ~upperAllowed
    /\ pwdPolicy = CurrentPolicy
    /\ Len(password) = MinLength

\* C17 (copy feedback): copied is true from a successful clipboard write
\* until the delay has passed since that write, that is exactly while the
\* timer set by the latest successful write has not run, however close the
\* copy clicks are; a failed write leaves copied as it was.
C17_CopyFeedback ==
    [][/\ copied' <=> (timers' # <<>>)
       /\ (writes' < writes /\ timers' = timers) => copied' = copied]_vars

====
